---- MODULE Spec2Model ----
(***************************************************************************)
(* A model of robotdad/filebrowser: the path confinement engine            *)
(* (FilesystemService.validate_path), the filesystem operation layer       *)
(* (services/filesystem.py), the /api/files routes (routes/files.py) and   *)
(* the session check (auth.py).                                            *)
(*                                                                         *)
(* An absolute path is the sequence of its components (<<>> is "/").       *)
(* The OS filesystem is the function fs from the existing absolute paths   *)
(* to nodes: a directory, a regular file with its bytes, or a symbolic     *)
(* link with an absolute target.  Symbolic-link cycles are not among the   *)
(* layouts (resolution of a cycle depends on the interpreter version).     *)
(***************************************************************************)
EXTENDS Naturals, Integers, Sequences, FiniteSets, TLC

VARIABLES fs,    \* the OS filesystem: absolute path -> node
          up,    \* the upload request in flight (routes/files.py upload_file)
          last,  \* the response being sent, NoRequest once it is sent
          nmut   \* number of requests so far that changed the filesystem

vars == <<fs, up, last, nmut>>

(***************************************************************************)
(* Bounds                                                                  *)
(***************************************************************************)
MaxPathSegs == 3    \* path segments in a candidate handed to validate_path alone
MaxLead == 2        \* leading separators in a candidate handed to validate_path alone
MaxMut == 1         \* filesystem-changing requests in one behaviour
MaxTime == 1        \* largest age (scaled seconds) of a session token
MaxPayload == 4     \* bytes in an upload payload
MaxLinkDepth == 3   \* nesting of symbolic links followed by one resolution

(***************************************************************************)
(* Paths                                                                   *)
(***************************************************************************)
SLASH == "/"
PARDIR == ".."
CURDIR == "."

\* FilesystemService.home_dir, already resolved
Home == <<"home", "user">>

NoPath == <<"<none>">>

Parent(p) == IF p = <<>> THEN <<>> ELSE SubSeq(p, 1, Len(p) - 1)

Prefix(p, i) == SubSeq(p, 1, i)

\* PurePath.relative_to succeeds: q is p or a component-wise descendant of p
IsRelativeTo(q, p) == Len(p) <= Len(q) /\ SubSeq(q, 1, Len(p)) = p

Inside(p) == IsRelativeTo(p, Home)

Min(S) == CHOOSE x \in S : \A y \in S : x <= y

(***************************************************************************)
(* Nodes and the tree                                                      *)
(***************************************************************************)
DirNode == [kind |-> "dir", data |-> <<>>, target |-> <<>>]
FileNode(d) == [kind |-> "file", data |-> d, target |-> <<>>]
LinkNode(t) == [kind |-> "link", data |-> <<>>, target |-> t]

Restrict(F, S) == [q \in S |-> F[q]]

IsLink(F, p) == p \in DOMAIN F /\ F[p].kind = "link"

\* os.path.realpath (non-strict), posixpath._joinrealpath: walk the components
\* of rest from the resolved prefix path; ".." pops the resolved prefix, a
\* symbolic link is replaced by the resolution of its target, a missing
\* component is appended as it is.
RECURSIVE JoinRealPath(_, _, _, _)
JoinRealPath(F, path, rest, fuel) ==
    IF rest = <<>> THEN path
    ELSE LET name == Head(rest)
             more == Tail(rest)
         IN  IF name = CURDIR THEN JoinRealPath(F, path, more, fuel)
             ELSE IF name = PARDIR
                  THEN JoinRealPath(F, Parent(path), more, fuel)
             ELSE LET newpath == Append(path, name)
                  IN  IF IsLink(F, newpath)
                      THEN IF fuel = 0 THEN NoPath
                           ELSE LET t == JoinRealPath(F, <<>>, F[newpath].target, fuel - 1)
                                IN  IF t = NoPath THEN NoPath
                                    ELSE JoinRealPath(F, t, more, fuel)
                      ELSE JoinRealPath(F, newpath, more, fuel)

\* a resolution that replaces a symbolic link by its target as it is written,
\* without resolving the target in turn
RECURSIVE JoinPathOnce(_, _, _)
JoinPathOnce(F, path, rest) ==
    IF rest = <<>> THEN path
    ELSE LET name == Head(rest)
             more == Tail(rest)
         IN  IF name = CURDIR THEN JoinPathOnce(F, path, more)
             ELSE IF name = PARDIR THEN JoinPathOnce(F, Parent(path), more)
             ELSE IF IsLink(F, Append(path, name))
                  THEN JoinPathOnce(F, F[Append(path, name)].target, more)
             ELSE JoinPathOnce(F, Append(path, name), more)

ResolveOnce(F, p) == JoinPathOnce(F, <<>>, p)

\* Path.resolve() of an absolute path
Resolve(F, p) == JoinRealPath(F, <<>>, p, MaxLinkDepth)

\* os.stat(p): the node p leads to, following symbolic links
Exists(F, p) == Resolve(F, p) \in DOMAIN F
IsDir(F, p) == Exists(F, p) /\ F[Resolve(F, p)].kind = "dir"
IsFile(F, p) == Exists(F, p) /\ F[Resolve(F, p)].kind = "file"

Children(F, p) == {q \in DOMAIN F : Len(q) = Len(p) + 1 /\ IsRelativeTo(q, p)}

(***************************************************************************)
(* Candidate strings                                                       *)
(***************************************************************************)
\* A candidate is a string, modelled as the sequence of its tokens: the
\* separator "/" or a maximal run of other characters (a path segment).
Segments == {"docs", "hello", "lnk", "new", PARDIR}
PathSegments == Segments \cup {CURDIR, "user", "userX", "key"}

Slashes(n) == [i \in 1..n |-> SLASH]

\* s1/s2/.../sk
RECURSIVE JoinSegs(_)
JoinSegs(segs) ==
    IF segs = <<>> THEN <<>>
    ELSE IF Len(segs) = 1 THEN segs
    ELSE <<Head(segs), SLASH>> \o JoinSegs(Tail(segs))

SegSeqs(S, n) == UNION {[1..k -> S] : k \in 0..n}

CandidatesOf(S, n, lead) ==
    {Slashes(l) \o JoinSegs(segs) : l \in 0..lead, segs \in SegSeqs(S, n)}

\* the candidates handed to validate_path alone
PathCandidates == CandidatesOf(PathSegments, MaxPathSegs, MaxLead)

\* the candidates of the requests: the empty one, every single segment, and
\* the deeper ones that reach a case of their own
Candidates ==
    CandidatesOf(Segments, 1, 0)
    \cup {JoinSegs(segs) : segs \in
            {<<"docs", PARDIR>>,          \* back to Home Root
             <<"docs", "readme">>,       \* a file in a subdirectory
             <<"docs", "new">>,          \* a fresh name in a subdirectory
             <<"new", "new">>,           \* a fresh name under a missing parent
             <<"hello", "new">>,         \* a name under a regular file
             <<"lnk", "key">>,           \* through the symbolic link
             <<"lnk", "new">>,
             <<PARDIR, "userX">>,        \* the sibling of Home Root
             <<PARDIR, PARDIR>>,         \* above Home Root
             <<"docs", PARDIR, PARDIR>>}}

\* the removal of one leading separator
LStripOne(s) == IF s # <<>> /\ Head(s) = SLASH THEN Tail(s) ELSE s

\* str.lstrip("/")
RECURSIVE LStrip(_)
LStrip(s) == IF s # <<>> /\ Head(s) = SLASH THEN LStrip(Tail(s)) ELSE s

\* pathlib's parse of a string into components: split at "/", drop empty
\* components and "."
RECURSIVE ParseParts(_)
ParseParts(s) ==
    IF s = <<>> THEN <<>>
    ELSE IF Head(s) = SLASH \/ Head(s) = CURDIR THEN ParseParts(Tail(s))
    ELSE <<Head(s)>> \o ParseParts(Tail(s))

IsAbsolute(s) == s # <<>> /\ Head(s) = SLASH

\* self.home_dir / cleaned: an absolute right operand replaces the left one
JoinPath(base, s) == IF IsAbsolute(s) THEN ParseParts(s) ELSE base \o ParseParts(s)

\* validate_path, line 46
ResolveCandidate(F, cand) == Resolve(F, JoinPath(Home, LStrip(cand)))

\* str.startswith on single names: the pairs of names of the model of which
\* the first is a proper prefix of the second
NamePrefix(a, b) == a = b \/ <<a, b>> \in {<<"user", "userX">>}

\* the boundary test as a prefix test on the path strings
validate_path_startswith(F, cand) ==
    LET resolved == ResolveCandidate(F, cand)
        n == Len(Home)
    IN  IF /\ Len(resolved) >= n
           /\ SubSeq(resolved, 1, n - 1) = SubSeq(Home, 1, n - 1)
           /\ NamePrefix(Home[n], resolved[n])
        THEN [ok |-> TRUE, path |-> resolved]
        ELSE [ok |-> FALSE, path |-> resolved]

\* validate_path: the resolved path, or the PermissionError of line 50
validate_path(F, cand) ==
    LET resolved == ResolveCandidate(F, cand)
    IN  IF IsRelativeTo(resolved, Home)
        THEN [ok |-> TRUE, path |-> resolved]
        ELSE [ok |-> FALSE, path |-> resolved]

(***************************************************************************)
(* OS calls on the tree.  Each returns the errno-named outcome and the new *)
(* tree.  Python maps ENOENT to FileNotFoundError, ENOTDIR to              *)
(* NotADirectoryError, EISDIR to IsADirectoryError, EEXIST to              *)
(* FileExistsError and the rest to plain OSError.                          *)
(***************************************************************************)
ExcOf(errno) ==
    CASE errno = "OK" -> "none"
      [] errno = "ENOENT" -> "FileNotFoundError"
      [] errno = "ENOTDIR" -> "NotADirectoryError"
      [] errno = "EISDIR" -> "IsADirectoryError"
      [] errno = "EEXIST" -> "FileExistsError"
      [] OTHER -> "OSError"

\* The kernel's walk to the parent directory of p (p holds no symbolic link)
WalkErr(F, p) ==
    LET bad == {i \in 0..(Len(p) - 1) :
                    ~(Prefix(p, i) \in DOMAIN F /\ F[Prefix(p, i)].kind = "dir")}
    IN  IF bad = {} THEN "OK"
        ELSE IF Prefix(p, Min(bad)) \in DOMAIN F THEN "ENOTDIR" ELSE "ENOENT"

Subtree(F, p) == {q \in DOMAIN F : IsRelativeTo(q, p)}

RemoveTree(F, p) == Restrict(F, DOMAIN F \ Subtree(F, p))

\* os.mkdir(p)
OsMkdir(F, p) ==
    IF WalkErr(F, p) # "OK" THEN [errno |-> WalkErr(F, p), fs |-> F]
    ELSE IF p \in DOMAIN F THEN [errno |-> "EEXIST", fs |-> F]
    ELSE [errno |-> "OK", fs |-> (p :> DirNode) @@ F]

\* Path.mkdir(exist_ok=True) without parents=True
PathMkdirNoParents(F, p) ==
    LET r == OsMkdir(F, p)
    IN  IF r.errno = "OK" \/ r.errno = "ENOENT" THEN r
        ELSE IF IsDir(F, p) THEN [errno |-> "OK", fs |-> F]
        ELSE r

\* Path.mkdir(parents=True, exist_ok=True) (pathlib): os.mkdir; on
\* FileNotFoundError make the parent this same way and retry; on any other
\* OSError succeed iff the path is a directory.
RECURSIVE PathMkdir(_, _)
PathMkdir(F, p) ==
    LET r == OsMkdir(F, p)
    IN  IF r.errno = "OK" THEN r
        ELSE IF r.errno = "ENOENT"
             THEN IF p = <<>> THEN r
                  ELSE LET up1 == PathMkdir(F, Parent(p))
                       IN  IF up1.errno # "OK" THEN up1
                           ELSE LET again == OsMkdir(up1.fs, p)
                                IN  IF again.errno = "OK" \/ IsDir(up1.fs, p)
                                    THEN [errno |-> "OK", fs |-> again.fs]
                                    ELSE again
        ELSE IF IsDir(F, p) THEN [errno |-> "OK", fs |-> F]
        ELSE r

\* a rename that moves the entry src alone and loses what is under it
OsRenameTopOnly(F, src, dst) ==
    IF src \notin DOMAIN F THEN [errno |-> "ENOENT", fs |-> F]
    ELSE IF WalkErr(F, dst) # "OK" THEN [errno |-> WalkErr(F, dst), fs |-> F]
    ELSE IF src = dst THEN [errno |-> "OK", fs |-> F]
    ELSE IF IsRelativeTo(dst, src) \/ IsRelativeTo(src, dst) \/ dst \in DOMAIN F
         THEN [errno |-> "EINVAL", fs |-> F]
    ELSE [errno |-> "OK", fs |-> (dst :> F[src]) @@ RemoveTree(F, src)]

\* os.rename(src, dst) on paths that hold no symbolic link
OsRename(F, src, dst) ==
    LET moved == [q \in (DOMAIN F \ (Subtree(F, src) \cup Subtree(F, dst)))
                        \cup {dst \o SubSeq(q, Len(src) + 1, Len(q)) : q \in Subtree(F, src)}
                    |-> IF IsRelativeTo(q, dst)
                        THEN F[src \o SubSeq(q, Len(dst) + 1, Len(q))]
                        ELSE F[q]]
        err == IF src \notin DOMAIN F THEN "ENOENT"
               ELSE IF WalkErr(F, dst) # "OK" THEN WalkErr(F, dst)
               ELSE IF src = dst THEN "SAME"
               ELSE IF IsRelativeTo(dst, src) THEN "EINVAL"
               ELSE IF IsRelativeTo(src, dst) THEN "ENOTEMPTY"
               ELSE IF dst \notin DOMAIN F THEN "OK"
               ELSE IF F[src].kind = "dir"
                    THEN IF F[dst].kind # "dir" THEN "ENOTDIR"
                         ELSE IF Children(F, dst) # {} THEN "ENOTEMPTY"
                         ELSE "OK"
               ELSE IF F[dst].kind = "dir" THEN "EISDIR"
               ELSE "OK"
    IN  IF err = "SAME" THEN [errno |-> "OK", fs |-> F]
        ELSE IF err = "OK" THEN [errno |-> "OK", fs |-> moved]
        ELSE [errno |-> err, fs |-> F]

\* os.unlink(p): removes the directory entry p itself (a link is not followed)
OsUnlink(F, p) ==
    IF WalkErr(F, p) # "OK" THEN [errno |-> WalkErr(F, p), fs |-> F]
    ELSE IF p \notin DOMAIN F THEN [errno |-> "ENOENT", fs |-> F]
    ELSE IF F[p].kind = "dir" THEN [errno |-> "EISDIR", fs |-> F]
    ELSE [errno |-> "OK", fs |-> Restrict(F, DOMAIN F \ {p})]

\* one OS access of a request: the call, the path handed to it and the real
\* path the OS reaches through it
Access(F, call, p) == [call |-> call, path |-> p, real |-> Resolve(F, p)]

(***************************************************************************)
(* services/filesystem.py: each operation returns the exception it raises  *)
(* ("none" when it returns), the new tree, the resolved path(s) and the    *)
(* OS accesses it made after validate_path.                                *)
(***************************************************************************)
Outcome(exc, F, rp, rp2, log) ==
    [exc |-> exc, fs |-> F, rp |-> rp, rp2 |-> rp2, log |-> log]

list_directory(F, cand) ==
    LET v == validate_path(F, cand)
        resolved == v.path
        kids == Children(F, resolved)
        keyed == {Access(F, "is_dir", e) : e \in kids}
        statted == {Access(F, "stat", e) : e \in kids}
        seen == {Access(F, "exists", resolved), Access(F, "is_dir", resolved)}
    IN  IF ~v.ok THEN Outcome("PermissionError", F, resolved, NoPath, {})
        ELSE IF ~Exists(F, resolved)
             THEN Outcome("FileNotFoundError", F, resolved, NoPath,
                          {Access(F, "exists", resolved)})
        ELSE IF ~IsDir(F, resolved)
             THEN Outcome("NotADirectoryError", F, resolved, NoPath, seen)
        ELSE IF \E e \in kids : ~Exists(F, e)
             THEN Outcome("FileNotFoundError", F, resolved, NoPath,
                          seen \cup {Access(F, "iterdir", resolved)} \cup keyed \cup statted)
        ELSE Outcome("none", F, resolved, NoPath,
                     seen \cup {Access(F, "iterdir", resolved)} \cup keyed \cup statted)

get_info(F, cand) ==
    LET v == validate_path(F, cand)
        resolved == v.path
    IN  IF ~v.ok THEN Outcome("PermissionError", F, resolved, NoPath, {})
        ELSE IF ~Exists(F, resolved)
             THEN Outcome("FileNotFoundError", F, resolved, NoPath,
                          {Access(F, "exists", resolved)})
        ELSE Outcome("none", F, resolved, NoPath,
                     {Access(F, "exists", resolved), Access(F, "stat", resolved),
                      Access(F, "is_dir", resolved), Access(F, "is_file", resolved)})

get_file_path(F, cand) ==
    LET v == validate_path(F, cand)
        resolved == v.path
    IN  IF ~v.ok THEN Outcome("PermissionError", F, resolved, NoPath, {})
        ELSE IF ~Exists(F, resolved)
             THEN Outcome("FileNotFoundError", F, resolved, NoPath,
                          {Access(F, "exists", resolved)})
        ELSE IF ~IsFile(F, resolved)
             THEN Outcome("IsADirectoryError", F, resolved, NoPath,
                          {Access(F, "exists", resolved), Access(F, "is_file", resolved)})
        ELSE Outcome("none", F, resolved, NoPath,
                     {Access(F, "exists", resolved), Access(F, "is_file", resolved)})

\* delete without the Home Root test of lines 113-114
delete_any(F, cand) ==
    LET v == validate_path(F, cand)
        resolved == v.path
    IN  IF ~v.ok THEN Outcome("PermissionError", F, resolved, NoPath, {})
        ELSE IF ~Exists(F, resolved)
             THEN Outcome("FileNotFoundError", F, resolved, NoPath,
                          {Access(F, "exists", resolved)})
        ELSE IF IsDir(F, resolved)
             THEN Outcome("none", RemoveTree(F, resolved), resolved, NoPath,
                          {Access(F, "exists", resolved), Access(F, "is_dir", resolved),
                           Access(F, "rmtree", resolved)})
        ELSE Outcome("none", OsUnlink(F, resolved).fs, resolved, NoPath,
                     {Access(F, "exists", resolved), Access(F, "is_dir", resolved),
                      Access(F, "unlink", resolved)})

delete(F, cand) ==
    LET v == validate_path(F, cand)
        resolved == v.path
    IN  IF ~v.ok THEN Outcome("PermissionError", F, resolved, NoPath, {})
        ELSE IF ~Exists(F, resolved)
             THEN Outcome("FileNotFoundError", F, resolved, NoPath,
                          {Access(F, "exists", resolved)})
        ELSE IF resolved = Home
             THEN Outcome("PermissionError", F, resolved, NoPath,
                          {Access(F, "exists", resolved)})
        ELSE IF IsDir(F, resolved)
             THEN Outcome("none", RemoveTree(F, resolved), resolved, NoPath,
                          {Access(F, "exists", resolved), Access(F, "is_dir", resolved),
                           Access(F, "rmtree", resolved)})
        ELSE LET r == OsUnlink(F, resolved)
             IN  Outcome(ExcOf(r.errno), r.fs, resolved, NoPath,
                         {Access(F, "exists", resolved), Access(F, "is_dir", resolved),
                          Access(F, "unlink", resolved)})

mkdir(F, cand) ==
    LET v == validate_path(F, cand)
        resolved == v.path
        r == PathMkdir(F, resolved)
    IN  IF ~v.ok THEN Outcome("PermissionError", F, resolved, NoPath, {})
        ELSE Outcome(ExcOf(r.errno), r.fs, resolved, NoPath,
                     {Access(F, "mkdir", resolved)})

\* rename that tests the source's existence before it validates the destination
rename_exists_first(F, old_path, new_path) ==
    LET vo == validate_path(F, old_path)
        vn == validate_path(F, new_path)
        r == OsRename(F, vo.path, vn.path)
    IN  IF ~vo.ok THEN Outcome("PermissionError", F, vo.path, NoPath, {})
        ELSE IF ~Exists(F, vo.path)
             THEN Outcome("FileNotFoundError", F, vo.path, vn.path,
                          {Access(F, "exists", vo.path)})
        ELSE IF ~vn.ok THEN Outcome("PermissionError", F, vo.path, vn.path, {})
        ELSE Outcome(ExcOf(r.errno), r.fs, vo.path, vn.path,
                     {Access(F, "exists", vo.path), Access(F, "rename", vo.path),
                      Access(F, "rename", vn.path)})

rename(F, old_path, new_path) ==
    LET vo == validate_path(F, old_path)
        vn == validate_path(F, new_path)
        old_resolved == vo.path
        new_resolved == vn.path
        r == OsRename(F, old_resolved, new_resolved)
    IN  IF ~vo.ok THEN Outcome("PermissionError", F, old_resolved, NoPath, {})
        ELSE IF ~vn.ok
             THEN Outcome("PermissionError", F, old_resolved, new_resolved, {})
        ELSE IF ~Exists(F, old_resolved)
             THEN Outcome("FileNotFoundError", F, old_resolved, new_resolved,
                          {Access(F, "exists", old_resolved)})
        ELSE Outcome(ExcOf(r.errno), r.fs, old_resolved, new_resolved,
                     {Access(F, "exists", old_resolved),
                      Access(F, "rename", old_resolved),
                      Access(F, "rename", new_resolved)})

(***************************************************************************)
(* auth.py: session tokens and the session check                           *)
(***************************************************************************)
\* settings.secret_key
SecretKey == "secret"
\* settings.session_timeout, scaled to the model's clock
session_timeout == 0

Users == {"alice"}

\* TimestampSigner's signature: a keyed digest of the payload and timestamp
Sign(key, user, ts) == <<key, user, ts>>

create_session_token(username, secret_key, t) ==
    [user |-> username, ts |-> t, sig |-> Sign(secret_key, username, t)]

\* the identity, or "" for None (BadSignature, SignatureExpired)
validate_session_token(token, secret_key, max_age, t) ==
    IF token.sig # Sign(secret_key, token.user, token.ts) THEN ""
    ELSE IF t - token.ts > max_age THEN ""
    ELSE token.user

\* the empty string sent as the cookie value
EmptyToken == [user |-> "", ts |-> 0, sig |-> <<>>]

\* what a client can send at time t: no cookie, an empty cookie, a token a
\* login issued at some time up to t, such a token with its payload changed,
\* a token signed with another key, or an unsigned string
Cookies(t) ==
    {[present |-> FALSE, token |-> EmptyToken], [present |-> TRUE, token |-> EmptyToken]}
    \cup {[present |-> TRUE, token |-> create_session_token(u, SecretKey, t0)] :
             u \in Users, t0 \in 0..t}
    \cup {[present |-> TRUE,
           token |-> [create_session_token(u, SecretKey, t0) EXCEPT !.user = "root"]] :
             u \in Users, t0 \in 0..t}
    \cup {[present |-> TRUE, token |-> create_session_token(u, "other", t0)] :
             u \in Users, t0 \in {t}}
    \cup {[present |-> TRUE, token |-> [user |-> "alice", ts |-> 0, sig |-> <<"garbage">>]]}

\* time.time() when a request is served; the tokens it may carry were
\* issued at 0..Clock, so that their ages are 0..MaxTime
Clock == MaxTime

\* require_auth that verifies the signature and not the age of the token
require_auth_any_age(cookie, t) ==
    IF ~cookie.present \/ cookie.token = EmptyToken THEN ""
    ELSE validate_session_token(cookie.token, SecretKey, t, t)

\* require_auth: the username, or "" when it raises the 401
require_auth(cookie, t) ==
    IF ~cookie.present \/ cookie.token = EmptyToken THEN ""
    ELSE validate_session_token(cookie.token, SecretKey, session_timeout, t)

Authenticated(cookie, t) == require_auth(cookie, t) # ""

(***************************************************************************)
(* routes/files.py: the mapping of exceptions to responses                 *)
(***************************************************************************)
Handled(op) ==
    CASE op = "list" -> {"PermissionError", "FileNotFoundError", "NotADirectoryError"}
      [] op = "info" -> {"PermissionError", "FileNotFoundError"}
      [] op \in {"content", "download"} ->
             {"PermissionError", "FileNotFoundError", "IsADirectoryError"}
      [] op = "mkdir" -> {"PermissionError"}
      [] op \in {"rename", "delete"} -> {"PermissionError", "FileNotFoundError"}
      [] OTHER -> {}

\* the error code of the response; an exception the route does not catch
\* reaches main.py's global handler
CodeOf(op, exc) ==
    IF exc = "none" THEN "OK"
    ELSE IF exc \notin Handled(op) THEN "INTERNAL_ERROR"
    ELSE CASE exc = "PermissionError" -> "PATH_FORBIDDEN"
           [] exc = "FileNotFoundError" -> "NOT_FOUND"
           [] exc = "NotADirectoryError" -> "NOT_DIRECTORY"
           [] exc = "IsADirectoryError" -> "IS_DIRECTORY"

StatusOf(code) ==
    CASE code = "OK" -> 200
      [] code \in {"NOT_DIRECTORY", "IS_DIRECTORY", "INVALID_FILENAME"} -> 400
      [] code = "UNAUTHORIZED" -> 401
      [] code = "PATH_FORBIDDEN" -> 403
      [] code = "NOT_FOUND" -> 404
      [] code = "FILE_TOO_LARGE" -> 413
      [] code = "INSUFFICIENT_STORAGE" -> 507
      [] code = "INTERNAL_ERROR" -> 500
      [] code = "CANCELLED" -> 0

Response(op, cookie, t, cand, cand2, code, exc, rp, rp2, log) ==
    [op |-> op, cookie |-> cookie, at |-> t, cand |-> cand, cand2 |-> cand2,
     code |-> code, status |-> StatusOf(code), exc |-> exc,
     rp |-> rp, rp2 |-> rp2, log |-> log, filename |-> <<>>, name |-> "", size |-> 0]

NoCookie == [present |-> FALSE, token |-> EmptyToken]

\* the 401 of require_auth: the handler body does not run
Unauthorized(op, cookie, t) ==
    Response(op, cookie, t, <<>>, <<>>, "UNAUTHORIZED", "HTTPException", NoPath, NoPath, {})

\* the response to a service call's outcome
Reply(op, cookie, t, cand, cand2, out) ==
    Response(op, cookie, t, cand, cand2, CodeOf(op, out.exc), out.exc,
             out.rp, out.rp2, out.log)

NoRequest ==
    Response("none", NoCookie, 0, <<>>, <<>>, "OK", "none", NoPath, NoPath, {})

Idle ==
    [pc |-> "idle", cookie |-> NoCookie, at |-> 0,
     cand |-> <<>>, filename |-> <<>>, safe_name |-> "", dest |-> NoPath,
     real |-> NoPath, size |-> 0, eof |-> FALSE, log |-> {}]

\* the server takes the next request when no upload is in flight and the
\* previous response is sent
Ready == up.pc = "idle" /\ last = NoRequest

\* Depends(require_auth) fails: the request is answered before the handler runs
Reject(op) ==
    /\ Ready
    /\ \E cookie \in Cookies(Clock) :
          /\ ~Authenticated(cookie, Clock)
          /\ last' = Unauthorized(op, cookie, Clock)
    /\ UNCHANGED <<fs, up, nmut>>

\* the session check passed: the clock reading and the cookie of the request
Sessions == {<<Clock, cookie>> : cookie \in {c \in Cookies(Clock) : Authenticated(c, Clock)}}

\* the handler of a request that only reads
ReadRoute(op, t, cookie, cand) ==
    LET out == CASE op = "list" -> list_directory(fs, cand)
                 [] op = "info" -> get_info(fs, cand)
                 [] op \in {"content", "download"} -> get_file_path(fs, cand)
        served == IF op \in {"content", "download"} /\ out.exc = "none"
                  THEN [out EXCEPT !.log = @ \cup {Access(fs, "read", out.rp)}]
                  ELSE out
    IN  /\ last' = Reply(op, cookie, t, cand, <<>>, served)
        /\ UNCHANGED <<fs, up, nmut>>

\* the handler of a request that changes the tree in one service call
WriteRoute(op, t, cookie, cand, cand2, out) ==
    /\ out.fs = fs \/ nmut < MaxMut
    /\ fs' = out.fs
    /\ nmut' = IF out.fs = fs THEN nmut ELSE nmut + 1
    /\ last' = Reply(op, cookie, t, cand, cand2, out)
    /\ UNCHANGED up

ListDirectory ==
    \/ Reject("list")
    \/ Ready /\ \E s \in Sessions, cand \in Candidates :
                    ReadRoute("list", s[1], s[2], cand)

FileInfo ==
    \/ Reject("info")
    \/ Ready /\ \E s \in Sessions, cand \in Candidates :
                    ReadRoute("info", s[1], s[2], cand)

GetContent ==
    \/ Reject("content")
    \/ Ready /\ \E s \in Sessions, cand \in Candidates :
                    ReadRoute("content", s[1], s[2], cand)

DownloadFile ==
    \/ Reject("download")
    \/ Ready /\ \E s \in Sessions, cand \in Candidates :
                    ReadRoute("download", s[1], s[2], cand)

MakeDirectory ==
    \/ Reject("mkdir")
    \/ Ready /\ \E s \in Sessions, cand \in Candidates :
          WriteRoute("mkdir", s[1], s[2], cand, <<>>, mkdir(fs, cand))

RenameFile ==
    \/ Reject("rename")
    \/ Ready /\ \E s \in Sessions, old_path \in Candidates, new_path \in Candidates :
          WriteRoute("rename", s[1], s[2], old_path, new_path,
                     rename(fs, old_path, new_path))

DeleteFile ==
    \/ Reject("delete")
    \/ Ready /\ \E s \in Sessions, cand \in Candidates :
          WriteRoute("delete", s[1], s[2], cand, <<>>, delete(fs, cand))

\* the response has been sent
Sent == /\ last # NoRequest
        /\ last' = NoRequest
        /\ UNCHANGED <<fs, up, nmut>>

(***************************************************************************)
(* routes/files.py upload_file.  The handler runs on the event loop: the   *)
(* code up to the first "await file.read" is one step (UploadBegin), and   *)
(* each later step runs from the return of one await to the next one.      *)
(***************************************************************************)
\* settings.upload_max_size and the chunk size of file.read, scaled
upload_max_size == 3
ChunkSize == 2

\* client-supplied filenames
Filenames == CandidatesOf({"up", "lnk", "docs", "hello", PARDIR, CURDIR}, 1, 0)
                \cup {<<PARDIR, SLASH, PARDIR, SLASH, "up">>, <<"docs", SLASH, PARDIR>>,
                      <<"lnk", SLASH, "up">>, <<"up", SLASH>>}

\* Path(file.filename).name: the last component, "" when there is none
PathName(s) ==
    LET parts == ParseParts(s)
    IN  IF parts = <<>> THEN "" ELSE parts[Len(parts)]

Bytes(n) == [i \in 1..n |-> "u"]

\* open(dest, "wb"): follows symbolic links, creates or truncates the file
OsOpenWrite(F, dest) ==
    LET real == Resolve(F, dest)
    IN  IF WalkErr(F, real) # "OK" THEN [errno |-> WalkErr(F, real), fs |-> F]
        ELSE IF real \in DOMAIN F /\ F[real].kind = "dir" THEN [errno |-> "EISDIR", fs |-> F]
        ELSE [errno |-> "OK", fs |-> (real :> FileNode(<<>>)) @@ F]

\* dest.unlink(missing_ok=True); dest is dir_path / safe_name, dir_path resolved
UnlinkMissingOk(F, dest) ==
    LET r == IF dest[Len(dest)] = PARDIR
             THEN [errno |-> "EISDIR", fs |-> F]
             ELSE OsUnlink(F, dest)
    IN  IF r.errno = "ENOENT" THEN [errno |-> "OK", fs |-> F] ELSE r

\* the except OSError clause, lines 152-162: remove dest, then 507 or re-raise
OnOSError(F, dest, errno) ==
    LET r == UnlinkMissingOk(F, dest)
    IN  [fs |-> r.fs,
         code |-> IF r.errno = "OK" /\ errno = "ENOSPC"
                  THEN "INSUFFICIENT_STORAGE" ELSE "INTERNAL_ERROR",
         exc |-> IF r.errno # "OK" THEN ExcOf(r.errno) ELSE ExcOf(errno)]

\* the boundary test on dest as it is, without resolve()
DestConfinedUnresolved(F, dest) == IsRelativeTo(dest, Home)

\* lines 132-137: dest.resolve().relative_to(fs.home_dir) succeeds
DestConfined(F, dest) == IsRelativeTo(Resolve(F, dest), Home)

\* the comparison of line 144 with >= for >
SizeExceededOrEqual(size) == size >= upload_max_size

\* line 144
SizeExceeded(size) == size > upload_max_size

UploadResponse(u, code, exc, log) ==
    [Response("upload", u.cookie, u.at, u.cand, <<>>, code, exc, u.dest, u.real, log)
        EXCEPT !.filename = u.filename, !.name = u.safe_name, !.size = u.size]

\* lines 111-141: the checks and the open
UploadBegin ==
    \/ Reject("upload")
    \/ Ready /\ \E s \in Sessions, cand \in Candidates, filename \in Filenames :
        LET v == validate_path(fs, cand)
            dir_path == v.path
            safe_name == PathName(filename)
            dest == Append(dir_path, safe_name)
            real == Resolve(fs, dest)
            opened == OsOpenWrite(fs, dest)
            failed == OnOSError(fs, dest, opened.errno)
            u == [pc |-> "streaming", cookie |-> s[2], at |-> s[1], cand |-> cand,
                  filename |-> filename, safe_name |-> safe_name, dest |-> dest, real |-> real,
                  size |-> 0, eof |-> FALSE,
                  log |-> {Access(fs, "is_dir", dir_path), Access(fs, "open", dest)}]
            early(code, exc, log) ==
                /\ last' = [Response("upload", s[2], s[1], cand, <<>>, code, exc,
                                     dir_path, NoPath, log)
                               EXCEPT !.filename = filename, !.name = safe_name]
                /\ UNCHANGED <<fs, up, nmut>>
        IN  IF ~v.ok THEN early("PATH_FORBIDDEN", "PermissionError", {})
               ELSE IF ~IsDir(fs, dir_path)
                    THEN early("NOT_DIRECTORY", "HTTPException",
                               {Access(fs, "is_dir", dir_path)})
               ELSE IF safe_name = ""
                    THEN early("INVALID_FILENAME", "HTTPException",
                               {Access(fs, "is_dir", dir_path)})
               ELSE IF ~DestConfined(fs, dest)
                    THEN early("PATH_FORBIDDEN", "HTTPException",
                               {Access(fs, "is_dir", dir_path)})
               ELSE IF opened.errno # "OK"
                    THEN /\ failed.fs = fs \/ nmut < MaxMut
                         /\ fs' = failed.fs
                         /\ nmut' = IF failed.fs = fs THEN nmut ELSE nmut + 1
                         /\ last' = UploadResponse([u EXCEPT !.real = NoPath],
                                                   failed.code, failed.exc,
                                                   u.log \cup {Access(fs, "unlink", dest)})
                         /\ UNCHANGED up
               ELSE /\ nmut < MaxMut
                    /\ fs' = opened.fs
                    /\ nmut' = nmut + 1
                    /\ up' = u
                    /\ UNCHANGED last

\* lines 142-151: file.read returned the next chunk of n bytes: a full chunk,
\* or what is left of the payload (nothing, at its end)
UploadChunk == up.pc = "streaming" /\ \E n \in 0..ChunkSize, fault \in {"OK", "ENOSPC", "EIO"} :
    LET size == up.size + n
        u == [up EXCEPT !.size = size, !.eof = (n < ChunkSize)]
        removed == UnlinkMissingOk(fs, up.dest)
        failed == OnOSError(fs, up.dest, fault)
    IN  /\ up.pc = "streaming"
        /\ size <= MaxPayload
        /\ up.eof => n = 0
        /\ IF n = 0
           THEN /\ fault = "OK"
                /\ last' = UploadResponse(up, "OK", "none", up.log)
                /\ up' = Idle
                /\ UNCHANGED fs
           ELSE IF SizeExceeded(size)
                THEN /\ fault = "OK"
                     /\ fs' = removed.fs
                     /\ last' = UploadResponse(u, "FILE_TOO_LARGE", "HTTPException",
                                               up.log \cup {Access(fs, "unlink", up.dest)})
                     /\ up' = Idle
           ELSE IF fault = "OK"
                THEN /\ fs' = [fs EXCEPT ![up.real].data = @ \o Bytes(n)]
                     /\ up' = [u EXCEPT !.log = @ \cup {Access(fs, "write", up.dest)}]
                     /\ UNCHANGED last
           ELSE /\ fs' = failed.fs
                /\ last' = UploadResponse(u, failed.code, failed.exc,
                                          up.log \cup {Access(fs, "write", up.dest),
                                                       Access(fs, "unlink", up.dest)})
                /\ up' = Idle
        /\ UNCHANGED nmut

\* file.read raised: an OSError reaches the except clause of line 152, any
\* other exception leaves the handler through the with block alone
UploadReadError == up.pc = "streaming" /\ \E exc \in {"OSError", "Exception"} :
    LET failed == OnOSError(fs, up.dest, "EIO")
    IN  /\ up.pc = "streaming"
        /\ IF exc = "OSError"
           THEN /\ fs' = failed.fs
                /\ last' = UploadResponse(up, failed.code, failed.exc,
                                          up.log \cup {Access(fs, "unlink", up.dest)})
           ELSE /\ last' = UploadResponse(up, "INTERNAL_ERROR", exc, up.log)
                /\ UNCHANGED fs
        /\ up' = Idle
        /\ UNCHANGED nmut

\* the request is cancelled while the handler waits in file.read:
\* CancelledError is no OSError, the with block closes the file
UploadCancel ==
    /\ up.pc = "streaming"
    /\ last' = UploadResponse(up, "CANCELLED", "CancelledError", up.log)
    /\ up' = Idle
    /\ UNCHANGED <<fs, nmut>>

(***************************************************************************)
(* The initial trees: the fixture of tests/conftest.py in short, a         *)
(* sibling of Home Root outside it, and one symbolic link under Home Root  *)
(***************************************************************************)
BaseTree ==
    (<<>> :> DirNode)
    @@ (<<"home">> :> DirNode)
    @@ (<<"home", "userX">> :> DirNode)
    @@ (<<"home", "userX", "key">> :> FileNode(<<"s", "s">>))
    @@ (Home :> DirNode)
    @@ (Home \o <<"docs">> :> DirNode)
    @@ (Home \o <<"docs", "readme">> :> FileNode(<<"r">>))
    @@ (Home \o <<"hello">> :> FileNode(<<"h", "h", "h">>))

LinkTargets ==
    {<<"home", "userX">>, <<"home", "userX", "key">>, Home, Home \o <<"docs">>,
     Home \o <<"hello">>, Home \o <<"missing">>}

Layouts ==
    {BaseTree} \cup {(Home \o <<"lnk">> :> LinkNode(t)) @@ BaseTree : t \in LinkTargets}

Init ==
    /\ fs \in Layouts
    /\ up = Idle
    /\ last = NoRequest
    /\ nmut = 0

Next ==
    \/ ListDirectory
    \/ FileInfo
    \/ GetContent
    \/ DownloadFile
    \/ MakeDirectory
    \/ RenameFile
    \/ DeleteFile
    \/ UploadBegin
    \/ UploadChunk
    \/ UploadReadError
    \/ UploadCancel
    \/ Sent

Spec == Init /\ [][Next]_vars

(***************************************************************************)
(* validate_path alone, on every candidate and every layout of two         *)
(* symbolic links: lnk under Home Root and lnk under docs                  *)
(***************************************************************************)
PathLayouts ==
    Layouts
    \cup {(Home \o <<"docs", "lnk">> :> LinkNode(t2)) @@ F :
            F \in Layouts, t2 \in {Home \o <<"lnk">>, <<"home">>, Home \o <<"docs">>}}

InitPath ==
    /\ fs \in PathLayouts
    /\ up = Idle
    /\ last = NoRequest
    /\ nmut = 0

ValidatePath == last = NoRequest /\ \E cand \in PathCandidates :
    LET v == validate_path(fs, cand)
    IN  /\ last' = Response("validate_path", NoCookie, 0, cand, <<>>,
                            IF v.ok THEN "OK" ELSE "PATH_FORBIDDEN",
                            IF v.ok THEN "none" ELSE "PermissionError",
                            v.path, NoPath, {})
        /\ UNCHANGED <<fs, up, nmut>>

NextPath == ValidatePath

SpecPath == InitPath /\ [][NextPath]_vars

(***************************************************************************)
(* The claims                                                              *)
(***************************************************************************)
\* p is Home Root or a component-wise descendant of it
Within(p) == Len(p) >= 2 /\ p[1] = "home" /\ p[2] = "user"

\* the real path a candidate leads to on tree F
RealOf(F, cand) == Resolve(F, Home \o ParseParts(LStrip(cand)))

\* the walk of a candidate's segments from Home Root reaches, at some
\* segment, a real path outside Home Root
RECURSIVE Leaves(_, _, _, _)
Leaves(F, path, rest, fuel) ==
    IF ~Within(path) THEN TRUE
    ELSE IF rest = <<>> THEN FALSE
    ELSE LET name == Head(rest)
             more == Tail(rest)
             newpath == Append(path, name)
         IN  IF name = CURDIR THEN Leaves(F, path, more, fuel)
             ELSE IF name = PARDIR THEN Leaves(F, Parent(path), more, fuel)
             ELSE IF IsLink(F, newpath)
                  THEN Leaves(F, Resolve(F, F[newpath].target), more, fuel)
             ELSE Leaves(F, newpath, more, fuel)

LeavesHome(F, cand) == Leaves(F, Home, ParseParts(LStrip(cand)), MaxLinkDepth)

Validated == last.op = "validate_path"

ResponseStep == last = NoRequest /\ last' # NoRequest

\* C2: delete, mkdir and rename of a candidate whose real path is outside
\* Home Root (for rename the source or the destination, the source existing
\* or not) answer with the confinement error, having made no OS access after
\* the resolution and leaving the tree as it was.
C2_ConfinementFirst ==
    [][(/\ ResponseStep
        /\ last'.op \in {"delete", "mkdir", "rename"}
        /\ last'.code # "UNAUTHORIZED"
        /\ \/ ~Within(RealOf(fs, last'.cand))
           \/ last'.op = "rename" /\ ~Within(RealOf(fs, last'.cand2)))
       => (/\ last'.code = "PATH_FORBIDDEN"
           /\ last'.exc = "PermissionError"
           /\ last'.log = {}
           /\ fs' = fs)]_vars

\* a rename with a missing source and a destination outside Home Root is refused
C2_Witness ==
    /\ last.op = "rename"
    /\ last.code = "PATH_FORBIDDEN"
    /\ Within(last.rp) /\ last.rp \notin DOMAIN fs
    /\ ~Within(last.rp2)

HomeIsDir == Home \in DOMAIN fs /\ fs[Home].kind = "dir"

\* C3: Home Root is a directory in every state, and a delete of any
\* candidate whose real path is Home Root answers with the forbidden error
\* and leaves the tree as it was.
C3_HomeKept ==
    /\ []HomeIsDir
    /\ [][(/\ ResponseStep
           /\ last'.op = "delete"
           /\ last'.code # "UNAUTHORIZED"
           /\ RealOf(fs, last'.cand) = Home)
          => (/\ last'.code = "PATH_FORBIDDEN"
              /\ last'.exc = "PermissionError"
              /\ fs' = fs)]_vars

\* a delete through the symbolic link to Home Root is refused
C3_Witness ==
    /\ last.op = "delete"
    /\ last.cand = <<"lnk">>
    /\ IsLink(fs, Home \o <<"lnk">>) /\ fs[Home \o <<"lnk">>].target = Home
    /\ last.code = "PATH_FORBIDDEN"
    /\ HomeIsDir

\* C4 as stated: every path a request hands to a filesystem read or
\* mutation leads to a real path under Home Root, the per-child is_dir and
\* stat calls of a listing and the path an upload opens included.
C4_Original ==
    \A e \in last.log \cup up.log : Within(e.real)

\* the bytes the destination file of the upload in flight holds
Written == IF up.real \in DOMAIN fs THEN Len(fs[up.real].data) ELSE 0

\* C5: an upload that opened its destination answers 413 FILE_TOO_LARGE
\* exactly when the bytes read exceed the ceiling, and then no entry is left
\* at the destination path; while an upload streams, the counter and the
\* bytes in the destination file are at most the ceiling.
C5_SizeCeiling ==
    /\ up.pc = "streaming" =>
          /\ up.size <= upload_max_size
          /\ up.real \in DOMAIN fs
          /\ Written = up.size
    /\ (last.op = "upload" /\ last.rp2 # NoPath) =>
          /\ last.code = "FILE_TOO_LARGE" <=> last.size > upload_max_size
          /\ last.code = "FILE_TOO_LARGE" => last.status = 413 /\ ~Exists(fs, last.rp)
          /\ last.code = "FILE_TOO_LARGE" => last.rp \notin DOMAIN fs

\* an upload was aborted after bytes had been written, and its file is gone
C5_Witness ==
    /\ last.op = "upload"
    /\ last.code = "FILE_TOO_LARGE"
    /\ last.size > upload_max_size
    /\ last.size - ChunkSize > 0
    /\ last.rp \notin DOMAIN fs

\* C6 as stated: an upload that opened its destination and failed for
\* another reason than the size ceiling leaves no entry at the destination.
C6_Original ==
    (/\ last.op = "upload"
     /\ last.rp2 # NoPath
     /\ last.code \notin {"OK", "FILE_TOO_LARGE"})
    => last.rp \notin DOMAIN fs

Max(S) == CHOOSE x \in S : \A y \in S : x >= y

\* the last segment of a filename, "" when it has none
FinalComponent(s) ==
    LET at == {i \in 1..Len(s) : s[i] \notin {SLASH, CURDIR}}
    IN  IF at = {} THEN "" ELSE s[Max(at)]

\* C7: an upload uses the final component of the client's filename, answers
\* an empty one with INVALID_FILENAME (when the directory was accepted),
\* opens only a destination whose real path is under Home Root, and no step
\* creates, changes or removes an entry outside Home Root.
C7_UploadConfined ==
    /\ [](up.pc = "streaming" =>
            /\ up.safe_name = FinalComponent(up.filename)
            /\ up.safe_name # ""
            /\ Within(up.real))
    /\ []((last.op = "upload" /\ last.code # "UNAUTHORIZED") =>
            /\ last.name = FinalComponent(last.filename)
            /\ last.name = "" =>
                  last.code \in {"PATH_FORBIDDEN", "NOT_DIRECTORY", "INVALID_FILENAME"}
            /\ (last.name = "" /\ IsDir(fs, RealOf(fs, last.cand))
                   /\ Within(RealOf(fs, last.cand))) => last.code = "INVALID_FILENAME"
            /\ last.rp2 # NoPath => Within(last.rp2))
    /\ [][\A p \in DOMAIN fs \cup DOMAIN fs' :
            ~Within(p) => p \in DOMAIN fs /\ p \in DOMAIN fs' /\ fs'[p] = fs[p]]_vars

\* an upload named like the symbolic link to the file outside is refused
\* by the check of the destination
C7_Witness ==
    /\ last.op = "upload"
    /\ last.filename = <<"lnk">>
    /\ IsLink(fs, Home \o <<"lnk">>)
    /\ fs[Home \o <<"lnk">>].target = <<"home", "userX", "key">>
    /\ last.rp = Home
    /\ last.code = "PATH_FORBIDDEN"

Endpoints ==
    {"list", "info", "content", "download", "upload", "mkdir", "rename", "delete"}

\* the cookie carries a token that a login issued and that has not expired
Genuine(cookie) ==
    /\ cookie.present
    /\ \E u \in Users, t0 \in 0..Clock :
          /\ cookie.token = create_session_token(u, SecretKey, t0)
          /\ Clock - t0 <= session_timeout

\* C8: every endpoint answers a request without a cookie, or with a token
\* that is invalid or expired, with 401 UNAUTHORIZED, having made no OS
\* access and leaving the tree and the upload state as they were; an upload
\* streams only for a genuine session.
C8_SessionFirst ==
    /\ [](up.pc = "streaming" => Genuine(up.cookie))
    /\ [][(ResponseStep /\ last'.op \in Endpoints /\ ~Genuine(last'.cookie))
          => (/\ last'.code = "UNAUTHORIZED"
              /\ last'.status = 401
              /\ last'.log = {}
              /\ fs' = fs
              /\ up' = up)]_vars

\* a delete with an expired token is answered 401
C8_Witness ==
    /\ last.op = "delete"
    /\ last.cookie.present
    /\ last.cookie.token = create_session_token("alice", SecretKey, 0)
    /\ Clock - last.cookie.token.ts > session_timeout
    /\ last.status = 401

\* the subtree of src in F is the subtree of dst in G, nothing is left at
\* src, and every other path is as it was
Moved(F, G, src, dst) ==
    /\ Subtree(G, src) = {}
    /\ \A q \in Subtree(F, src) :
          LET r == dst \o SubSeq(q, Len(src) + 1, Len(q))
          IN  r \in DOMAIN G /\ G[r] = F[q]
    /\ \A r \in Subtree(G, dst) :
          src \o SubSeq(r, Len(dst) + 1, Len(r)) \in Subtree(F, src)
    /\ \A q \in DOMAIN F \cup DOMAIN G :
          (~IsRelativeTo(q, src) /\ ~IsRelativeTo(q, dst))
              => q \in DOMAIN F /\ q \in DOMAIN G /\ G[q] = F[q]

RenameStep ==
    /\ ResponseStep
    /\ last'.op = "rename"
    /\ last'.code # "UNAUTHORIZED"
    /\ Within(RealOf(fs, last'.cand))
    /\ Within(RealOf(fs, last'.cand2))

\* C9 as stated: a successful rename of an existing source leaves no entry
\* at the old path, the old content at the new path and the rest unchanged;
\* a rename of a missing source answers not-found and changes nothing.
C9_Original ==
    [][RenameStep =>
        IF RealOf(fs, last'.cand) \in DOMAIN fs
        THEN last'.code = "OK" =>
                Moved(fs, fs', RealOf(fs, last'.cand), RealOf(fs, last'.cand2))
        ELSE last'.code = "NOT_FOUND" /\ fs' = fs]_vars

\* C9 amended: as stated when old and new resolve to different paths; when
\* they resolve to the same existing path the rename succeeds and changes
\* nothing.
C9_Rename ==
    [][RenameStep =>
        IF RealOf(fs, last'.cand) \in DOMAIN fs
        THEN last'.code = "OK" =>
                IF RealOf(fs, last'.cand) = RealOf(fs, last'.cand2)
                THEN fs' = fs
                ELSE Moved(fs, fs', RealOf(fs, last'.cand), RealOf(fs, last'.cand2))
        ELSE last'.code = "NOT_FOUND" /\ fs' = fs]_vars

\* the directory docs was renamed to new, its file with it
C9_Witness ==
    /\ last.op = "rename"
    /\ last.code = "OK"
    /\ last.rp = Home \o <<"docs">>
    /\ last.rp2 = Home \o <<"new">>
    /\ Home \o <<"docs">> \notin DOMAIN fs
    /\ Home \o <<"new", "readme">> \in DOMAIN fs
    /\ fs[Home \o <<"new", "readme">>] = FileNode(<<"r">>)

\* p and its ancestors are directories of G, G adds to F only directories on
\* the way to p, and nothing if p was a directory already
Made(F, G, p) ==
    /\ \A i \in 0..Len(p) : Prefix(p, i) \in DOMAIN G /\ G[Prefix(p, i)].kind = "dir"
    /\ \A q \in DOMAIN F : q \in DOMAIN G /\ G[q] = F[q]
    /\ \A q \in DOMAIN G \ DOMAIN F : IsRelativeTo(p, q)
    /\ (p \in DOMAIN F /\ F[p].kind = "dir") => G = F

\* p or an ancestor of p is an entry that is no directory
Blocked(F, p) ==
    \E i \in 0..Len(p) : Prefix(p, i) \in DOMAIN F /\ F[Prefix(p, i)].kind # "dir"

MkdirStep == ResponseStep /\ last'.op = "mkdir" /\ last'.code # "UNAUTHORIZED"

ListNames == {"Ab", "B", "a", "b"}

ListPath(n) == Home \o <<n>>

\* a name as the sequence of the code points of its characters
CodePoints(n) ==
    CASE n = "Ab" -> <<65, 98>>
      [] n = "B" -> <<66>>
      [] n = "a" -> <<97>>
      [] n = "b" -> <<98>>

\* str.lower() on code points
Lower(s) == [i \in 1..Len(s) |-> IF s[i] >= 65 /\ s[i] <= 90 THEN s[i] + 32 ELSE s[i]]

\* s < t for strings: lexicographic on code points
RECURSIVE StrLess(_, _)
StrLess(s, t) ==
    IF t = <<>> THEN FALSE
    ELSE IF s = <<>> THEN TRUE
    ELSE IF Head(s) # Head(t) THEN Head(s) < Head(t)
    ELSE StrLess(Tail(s), Tail(t))

\* the sort key with the name as it is, not lowercased
SortKeyRaw(F, e) == <<~IsDir(F, e), CodePoints(e[Len(e)])>>

\* line 62: key=lambda e: (not e.is_dir(), e.name.lower())
SortKey(F, e) == <<~IsDir(F, e), Lower(CodePoints(e[Len(e)]))>>

\* k1 < k2 for the key tuples: False < True, then the strings
KeyLess(k1, k2) ==
    IF k1[1] # k2[1] THEN k2[1] ELSE StrLess(k1[2], k2[2])

\* the insertion of x into the sorted front, behind the elements that are
\* not greater than it
InsertStable(F, front, x) ==
    LET ahead == {i \in 1..Len(front) : ~KeyLess(SortKey(F, x), SortKey(F, front[i]))}
        at == IF ahead = {} THEN 0
              ELSE CHOOSE i \in ahead : \A j \in ahead : j <= i
    IN  SubSeq(front, 1, at) \o <<x>> \o SubSeq(front, at + 1, Len(front))

\* sorted(): a stable sort by the key
RECURSIVE Sorted(_, _)
Sorted(F, seq) ==
    IF seq = <<>> THEN <<>>
    ELSE InsertStable(F, Sorted(F, SubSeq(seq, 1, Len(seq) - 1)), seq[Len(seq)])

\* lines 63-70: the dictionary of one entry (stat follows symbolic links)
EntryOf(F, e) ==
    [name |-> e[Len(e)],
     type |-> IF IsDir(F, e) THEN "directory" ELSE "file",
     size |-> Len(F[Resolve(F, e)].data)]

\* lines 59-72: the entries in sorted order; entry.stat() raises on a child
\* that is a symbolic link without a target
ListEntries(F, order) ==
    LET sorted == Sorted(F, order)
    IN  IF \E i \in 1..Len(sorted) : ~Exists(F, sorted[i])
        THEN [exc |-> "FileNotFoundError", entries |-> <<>>]
        ELSE [exc |-> "none", entries |-> [i \in 1..Len(sorted) |-> EntryOf(F, sorted[i])]]

\* every order in which iterdir can yield the children of p
IterDirOrders(F, p) ==
    LET kids == Children(F, p)
        n == Cardinality(kids)
    IN  {o \in [1..n -> kids] : \A i, j \in 1..n : o[i] = o[j] => i = j}

ListBase ==
    (<<>> :> DirNode)
    @@ (<<"home">> :> DirNode)
    @@ (<<"home", "userX">> :> DirNode)
    @@ (<<"home", "userX", "key">> :> FileNode(<<"s", "s">>))
    @@ (Home :> DirNode)

\* what a name of Home Root can be
ListNodes ==
    {DirNode, FileNode(<<"x">>), LinkNode(<<"home", "userX">>),
     LinkNode(<<"home", "userX", "key">>), LinkNode(Home \o <<"missing">>)}

\* no entry under the name, or a node
ListKinds == {[kind |-> "absent", data |-> <<>>, target |-> <<>>]} \cup ListNodes

ListLayouts ==
    {[p \in {ListPath(n) : n \in {m \in ListNames : kinds[m].kind # "absent"}}
        |-> kinds[p[Len(p)]]] @@ ListBase : kinds \in [ListNames -> ListKinds]}

ListCandidates == {<<>>, <<"a">>}

InitList ==
    /\ fs \in ListLayouts
    /\ up = Idle
    /\ last = NoRequest
    /\ nmut = 0

\* one call of list_directory
ListCall == last = NoRequest /\ \E cand \in ListCandidates :
    LET out == list_directory(fs, cand)
    IN  /\ \E order \in IterDirOrders(fs, out.rp) :
              LET res == IF out.exc # "PermissionError" /\ IsDir(fs, out.rp)
                         THEN ListEntries(fs, order)
                         ELSE [exc |-> out.exc, entries |-> <<>>]
              IN  last' = [op |-> "list_directory", cand |-> cand, rp |-> out.rp,
                           order |-> order, exc |-> res.exc, entries |-> res.entries]
        /\ UNCHANGED <<fs, up, nmut>>

NextList == ListCall

SpecList == InitList /\ [][NextList]_vars

\* a call of list_directory that returned a sequence
Listed == last.op = "list_directory" /\ last.exc = "none"

\* the lowercased name n1 is not greater than the lowercased name n2: they
\* are equal, or n1 is a proper prefix, or n1 is smaller where they first differ
LowerLeq(n1, n2) ==
    LET s == Lower(CodePoints(n1))
        t == Lower(CodePoints(n2))
    IN  \/ s = t
        \/ Len(s) < Len(t) /\ SubSeq(t, 1, Len(s)) = s
        \/ \E k \in 1..Min({Len(s), Len(t)}) :
              /\ SubSeq(s, 1, k - 1) = SubSeq(t, 1, k - 1)
              /\ s[k] < t[k]

C12_Original ==
    last.op = "list_directory" =>
        /\ (Within(RealOf(fs, last.cand)) /\ IsDir(fs, RealOf(fs, last.cand))) =>
              /\ last.exc = "none"
              /\ Len(last.entries) = Cardinality(Children(fs, last.rp))
              /\ {Append(last.rp, last.entries[i].name) : i \in 1..Len(last.entries)}
                    = Children(fs, last.rp)
        /\ last.exc = "FileNotFoundError" => ~Exists(fs, RealOf(fs, last.cand))
        /\ last.exc = "NotADirectoryError" =>
              Exists(fs, RealOf(fs, last.cand)) /\ ~IsDir(fs, RealOf(fs, last.cand))

(***************************************************************************)
(* validate_path on related candidates: a candidate, the candidate behind  *)
(* one more separator, and the returned path fed back as a string          *)
(***************************************************************************)
\* str(path): the separator before every component
PathString(p) == IF p = <<>> THEN <<SLASH>> ELSE <<SLASH>> \o JoinSegs(p)

\* str(path.relative_to(home_dir)): "." for the home directory itself
RelativeString(p) ==
    IF p = Home THEN <<CURDIR>> ELSE JoinSegs(SubSeq(p, Len(Home) + 1, Len(p)))

ValidateRelated == last = NoRequest /\ \E cand \in PathCandidates :
    LET first == validate_path(fs, cand)
    IN  /\ last' = [op |-> "validate_related",
                    cand |-> cand,
                    first |-> first,
                    slash |-> validate_path(fs, <<SLASH>> \o cand),
                    again |-> IF first.ok THEN validate_path(fs, PathString(first.path))
                              ELSE first,
                    relative |-> IF first.ok
                                 THEN validate_path(fs, RelativeString(first.path))
                                 ELSE first]
        /\ UNCHANGED <<fs, up, nmut>>

NextRelated == ValidateRelated

SpecRelated == InitPath /\ [][NextRelated]_vars

Related == last.op = "validate_related"

\* C13 as stated: for every candidate validate_path accepts, the returned
\* path fed back into validate_path is accepted and returns that same path.
C13_Original ==
    (Related /\ last.first.ok) =>
        last.again.ok /\ last.again.path = last.first.path

\* C13 amended: for every candidate validate_path accepts, the returned path
\* taken relative to Home Root and fed back into validate_path is accepted
\* and returns that same path; the returned path is its own resolution.
C13_Idempotent ==
    (Related /\ last.first.ok) =>
        /\ last.relative.ok
        /\ last.relative.path = last.first.path
        /\ Resolve(fs, last.first.path) = last.first.path

\* docs/lnk leads over the link lnk to docs, and docs fed back gives docs
C13_Witness ==
    /\ Related
    /\ last.cand = <<"docs", SLASH, "lnk">>
    /\ IsLink(fs, Home \o <<"docs", "lnk">>)
    /\ fs[Home \o <<"docs", "lnk">>].target = Home \o <<"lnk">>
    /\ IsLink(fs, Home \o <<"lnk">>)
    /\ fs[Home \o <<"lnk">>].target = Home \o <<"docs">>
    /\ last.first.ok
    /\ last.first.path = Home \o <<"docs">>
    /\ last.relative.path = Home \o <<"docs">>

\* C14: validate_path of a candidate behind one more leading separator gives
\* the outcome of the candidate itself (the same resolved path or the same
\* rejection), an accepted path is under Home Root, and the empty candidate
\* and "/" resolve to Home Root.
C14_LeadingSeparator ==
    Related =>
        /\ last.slash = last.first
        /\ last.first.ok => Within(last.first.path)
        /\ last.cand \in {<<>>, <<SLASH>>} => last.first.ok /\ last.first.path = Home

\* //docs gives what /docs gives: docs under Home Root
C14_Witness ==
    /\ Related
    /\ last.cand = <<SLASH, "docs">>
    /\ last.first.ok
    /\ last.slash.ok
    /\ last.slash.path = Home \o <<"docs">>

(***************************************************************************)
(* auth.py alone: a token is issued at one instant and verified at a later *)
(* one; instants are ticks, TimestampSigner reads the clock in seconds     *)
(***************************************************************************)
TicksPerSecond == 2
MaxTick == 4
MaxAge == 1

\* TimestampSigner.get_timestamp: int(time.time())
get_timestamp(tick) == tick \div TicksPerSecond

Secrets == {SecretKey, "other"}

\* what is presented for a token: the token itself, a copy with the payload,
\* the timestamp or the signature changed, a string that is no token, ""
Presented(token) ==
    {token,
     [token EXCEPT !.user = "root"],
     [token EXCEPT !.ts = token.ts + 1],
     [token EXCEPT !.sig = <<"flipped">>],
     [user |-> "alice", ts |-> 0, sig |-> <<"garbage">>],
     EmptyToken}

InitToken == fs = BaseTree /\ up = Idle /\ last = NoRequest /\ nmut = 0

IssueToken == last = NoRequest /\ \E u \in Users, tick \in 0..MaxTick :
    /\ last' = [op |-> "create_session_token",
                issued |-> create_session_token(u, SecretKey, get_timestamp(tick)),
                tick |-> tick]
    /\ UNCHANGED <<fs, up, nmut>>

VerifyToken ==
    /\ last # NoRequest
    /\ last.op = "create_session_token"
    /\ \E tick \in last.tick..MaxTick, key \in Secrets, max_age \in 0..MaxAge,
          token \in Presented(last.issued) :
         last' = [op |-> "validate_session_token",
                  issued |-> last.issued,
                  token |-> token,
                  secret_key |-> key,
                  max_age |-> max_age,
                  elapsed |-> tick - last.tick,
                  result |-> validate_session_token(token, key, max_age,
                                                    get_timestamp(tick))]
    /\ UNCHANGED <<fs, up, nmut>>

NextToken == IssueToken \/ VerifyToken

SpecToken == InitToken /\ [][NextToken]_vars

\* C15 as stated: validate_session_token returns the identity only for an
\* unmodified token under the secret it was issued with whose age does not
\* exceed max_age seconds (so with max_age 0, never after any elapsed time);
\* a token verified at the instant it was issued returns its identity; a
\* modified token, another secret, a garbage string and "" return invalid.
C15_Original ==
    (last # NoRequest /\ last.op = "validate_session_token") =>
        LET intact == last.token = last.issued /\ last.secret_key = SecretKey
        IN  /\ last.result # "" =>
                  /\ intact
                  /\ last.result = last.issued.user
                  /\ last.elapsed <= last.max_age * TicksPerSecond
            /\ (intact /\ last.elapsed = 0) => last.result = last.issued.user
            /\ (last.max_age = 0 /\ last.elapsed > 0) => last.result = ""

(***************************************************************************)
(* detect_file_type alone.  A filename is a sequence of pieces: the dot,   *)
(* the separator, and words (runs of characters without dot or separator)  *)
(***************************************************************************)
DOT == "."
MaxPieces == 4

Words == {"photo", "JPG", "env", "Py", "gz", "xyz"}

\* str.lower() of a word
LowerWord(w) ==
    CASE w = "JPG" -> "jpg"
      [] w = "Py" -> "py"
      [] OTHER -> w

\* the module's table, in the order of the dict; extensions without their dot
FILE_CATEGORIES ==
    << [category |-> "text",
        extensions |-> {"txt", "log", "csv", "json", "xml", "yaml", "yml",
                        "toml", "env", "conf"}],
       [category |-> "code",
        extensions |-> {"py", "js", "ts", "go", "rs", "c", "cpp", "java", "sh",
                        "sql", "html", "css"}],
       [category |-> "markdown", extensions |-> {"md"}],
       [category |-> "image",
        extensions |-> {"png", "jpg", "jpeg", "gif", "webp", "svg", "bmp"}],
       [category |-> "audio",
        extensions |-> {"mp3", "wav", "ogg", "flac", "aac", "m4a"}],
       [category |-> "video",
        extensions |-> {"mp4", "webm", "mkv", "mov", "avi"}],
       [category |-> "pdf", extensions |-> {"pdf"}] >>

Categories == {FILE_CATEGORIES[i].category : i \in DOMAIN FILE_CATEGORIES} \cup {"other"}

\* filenames: no two words side by side (they would be one word)
TypeFilenames ==
    {f \in UNION {[1..n -> Words \cup {DOT, SLASH}] : n \in 0..MaxPieces} :
        \A i \in 1..(Len(f) - 1) : ~(f[i] \in Words /\ f[i + 1] \in Words)}

\* the last index of piece c in s, 0 when there is none (str.rfind, 1-based)
RFind(s, c) ==
    LET at == {i \in 1..Len(s) : s[i] = c}
    IN  IF at = {} THEN 0 ELSE CHOOSE i \in at : \A j \in at : j <= i

\* the components of a filename: split at the separators, the empty and the
\* "." components dropped
RECURSIVE Components(_)
Components(f) ==
    IF f = <<>> THEN <<>>
    ELSE LET cut == RFind(f, SLASH)
             tail == SubSeq(f, cut + 1, Len(f))
             front == IF cut = 0 THEN <<>> ELSE Components(SubSeq(f, 1, cut - 1))
         IN  IF tail = <<>> \/ tail = <<DOT>> THEN front ELSE Append(front, tail)

\* PurePath.name: the final component, empty when there is none
PathNameOf(f) ==
    LET parts == Components(f)
    IN  IF parts = <<>> THEN <<>> ELSE parts[Len(parts)]

\* PurePath.suffix: from the last dot of the name, when that dot is neither
\* the first nor the last character
Suffix(name) ==
    LET i == RFind(name, DOT)
    IN  IF i > 1 /\ i < Len(name) THEN SubSeq(name, i, Len(name)) ELSE <<>>

\* the loop over the table: the first category that holds the extension
RECURSIVE Lookup(_, _)
Lookup(ext, i) ==
    IF i > Len(FILE_CATEGORIES) THEN "other"
    ELSE IF Len(ext) = 2 /\ ext[1] = DOT /\ ext[2] \in FILE_CATEGORIES[i].extensions
         THEN FILE_CATEGORIES[i].category
    ELSE Lookup(ext, i + 1)

detect_file_type(filename) ==
    LET suffix == Suffix(PathNameOf(filename))
        ext == [i \in 1..Len(suffix) |-> LowerWord(suffix[i])]
    IN  Lookup(ext, 1)

InitType == fs = BaseTree /\ up = Idle /\ last = NoRequest /\ nmut = 0

DetectFileType == last = NoRequest /\ \E filename \in TypeFilenames :
    /\ last' = [op |-> "detect_file_type",
                filename |-> filename,
                result |-> detect_file_type(filename)]
    /\ UNCHANGED <<fs, up, nmut>>

NextType == DetectFileType

SpecType == InitType /\ [][NextType]_vars

\* the category of the lowercased text after the last dot of the filename
AfterLastDot(filename) ==
    LET i == RFind(filename, DOT)
        rest == SubSeq(filename, i + 1, Len(filename))
    IN  IF i = 0 \/ Len(rest) # 1 THEN "other"
        ELSE Lookup(<<DOT, LowerWord(rest[1])>>, 1)

\* C16 as stated: for every filename detect_file_type returns one of the
\* eight categories, namely the category whose extension set holds the
\* lowercased text after the last dot of the filename ('.env' is text), and
\* 'other' when there is no dot or no entry matches.
C16_Original ==
    (last # NoRequest /\ last.op = "detect_file_type") =>
        /\ last.result \in Categories
        /\ last.result = AfterLastDot(last.filename)

(***************************************************************************)
(* Two requests served at once (threads or worker processes): each is a    *)
(* sequence of filesystem steps of FilesystemService, and the steps of the *)
(* two interleave.  The state of a run is the tree and the two requests.   *)
(***************************************************************************)
RaceTree ==
    (<<>> :> DirNode)
    @@ (<<"home">> :> DirNode)
    @@ (Home :> DirNode)
    @@ (Home \o <<"a">> :> FileNode(<<"x">>))
    @@ (Home \o <<"B">> :> DirNode)
    @@ (Home \o <<"B", "a">> :> FileNode(<<"y", "y">>))
    @@ (Home \o <<"B", "b">> :> LinkNode(Home \o <<"Ab">>))

\* the same tree without the symbolic link
RaceLayouts == {RaceTree, Restrict(RaceTree, DOMAIN RaceTree \ {Home \o <<"B", "b">>})}

\* a request that has not run yet
Request(op, cand, cand2) ==
    [op |-> op, cand |-> cand, cand2 |-> cand2, pc |-> "validate",
     rp |-> NoPath, rp2 |-> NoPath, exc |-> "none",
     names |-> <<>>, sorted |-> <<>>, entries |-> <<>>,
     todo |-> <<>>, handle |-> NoPath]

RaceRequests ==
    {Request("list", <<"B">>, <<>>),
     Request("list", <<>>, <<>>),
     Request("mkdir", <<"Ab">>, <<>>),
     Request("mkdir", <<"Ab", SLASH, "B">>, <<>>),
     Request("delete", <<"a">>, <<>>),
     Request("delete", <<"B">>, <<>>),
     Request("delete", <<>>, <<>>),
     Request("rename", <<"a">>, <<"B">>),
     Request("rename", <<"a">>, <<"Ab">>),
     Request("rename", <<"B">>, <<"Ab">>)}

\* os.listdir: the names in the directory's own order
RECURSIVE SetToSeq(_)
SetToSeq(S) ==
    IF S = {} THEN <<>>
    ELSE LET x == CHOOSE y \in S : TRUE IN <<x>> \o SetToSeq(S \ {x})

\* os.rmdir(p)
OsRmdir(F, p) ==
    IF WalkErr(F, p) # "OK" THEN [errno |-> WalkErr(F, p), fs |-> F]
    ELSE IF p \notin DOMAIN F THEN [errno |-> "ENOENT", fs |-> F]
    ELSE IF F[p].kind # "dir" THEN [errno |-> "ENOTDIR", fs |-> F]
    ELSE IF Children(F, p) # {} THEN [errno |-> "ENOTEMPTY", fs |-> F]
    ELSE [errno |-> "OK", fs |-> Restrict(F, DOMAIN F \ {p})]

\* the request raises exc
Raise(r, exc) == [r EXCEPT !.pc = "done", !.exc = exc]

\* the request returns
Return(r) == [r EXCEPT !.pc = "done"]

\* the directory a descriptor was opened on, after another request's step:
\* it moves with a rename of the directory or of an ancestor, and it is no
\* directory of the tree once it is removed or replaced
Reopen(h, gone, src, dst) ==
    IF h = NoPath THEN NoPath
    ELSE IF src # NoPath /\ IsRelativeTo(h, src) THEN dst \o SubSeq(h, Len(src) + 1, Len(h))
    ELSE IF h \in gone THEN NoPath
    ELSE h

\* the run after request i took a step that left it as r and the tree as F
After(S, i, r, F, gone, src, dst) ==
    [fs |-> F,
     req |-> [j \in DOMAIN S.req |->
                 IF j = i THEN r
                 ELSE [S.req[j] EXCEPT !.handle = Reopen(@, gone, src, dst)]]]

Quiet(S, i, r) == After(S, i, r, S.fs, {}, NoPath, NoPath)

\* lines 54, 110, 121, 126: validate_path of the (first) candidate
StepValidate(S, i) ==
    LET r == S.req[i]
        v == validate_path(S.fs, r.cand)
        next == CASE r.op = "rename" -> "validate2"
                  [] r.op = "mkdir" -> "os_mkdir"
                  [] OTHER -> "exists"
    IN  IF ~v.ok THEN Quiet(S, i, Raise([r EXCEPT !.rp = v.path], "PermissionError"))
        ELSE Quiet(S, i, [r EXCEPT !.rp = v.path, !.pc = next,
                                   !.todo = IF r.op = "mkdir"
                                            THEN <<[path |-> v.path, parents |-> TRUE]>>
                                            ELSE <<>>])

\* line 127: validate_path of the new path
StepValidate2(S, i) ==
    LET r == S.req[i]
        v == validate_path(S.fs, r.cand2)
    IN  IF ~v.ok THEN Quiet(S, i, Raise([r EXCEPT !.rp2 = v.path], "PermissionError"))
        ELSE Quiet(S, i, [r EXCEPT !.rp2 = v.path, !.pc = "exists"])

\* lines 55, 111-114, 128: resolved.exists(), and delete's Home Root test
StepExists(S, i) ==
    LET r == S.req[i]
    IN  IF ~Exists(S.fs, r.rp) THEN Quiet(S, i, Raise(r, "FileNotFoundError"))
        ELSE IF r.op = "rename" THEN Quiet(S, i, [r EXCEPT !.pc = "os_rename"])
        ELSE IF r.op = "delete" /\ r.rp = Home THEN Quiet(S, i, Raise(r, "PermissionError"))
        ELSE Quiet(S, i, [r EXCEPT !.pc = "is_dir"])

\* lines 57, 115: resolved.is_dir()
StepIsDir(S, i) ==
    LET r == S.req[i]
        d == IsDir(S.fs, r.rp)
    IN  IF r.op = "list"
        THEN IF d THEN Quiet(S, i, [r EXCEPT !.pc = "iterdir"])
             ELSE Quiet(S, i, Raise(r, "NotADirectoryError"))
        ELSE Quiet(S, i, [r EXCEPT !.pc = IF d THEN "rmtree_open" ELSE "unlink"])

\* line 61: resolved.iterdir(), consumed by sorted()
StepIterdir(S, i) ==
    LET r == S.req[i]
        F == S.fs
        real == Resolve(F, r.rp)
    IN  IF ~Exists(F, r.rp) THEN Quiet(S, i, Raise(r, "FileNotFoundError"))
        ELSE IF ~IsDir(F, r.rp) THEN Quiet(S, i, Raise(r, "NotADirectoryError"))
        ELSE Quiet(S, i, [r EXCEPT !.pc = "keys",
                                   !.names = SetToSeq({Append(r.rp, q[Len(q)]) :
                                                          q \in Children(F, real)})])

\* lines 60-62: sorted() computes the key of every entry (is_dir), then sorts
StepKeys(S, i) ==
    LET r == S.req[i]
    IN  Quiet(S, i, [r EXCEPT !.pc = "entries", !.sorted = Sorted(S.fs, r.names)])

\* lines 63-71: stat and is_dir of the entries in the sorted order
StepEntries(S, i) ==
    LET r == S.req[i]
        F == S.fs
    IN  IF \E k \in 1..Len(r.sorted) : ~Exists(F, r.sorted[k])
        THEN Quiet(S, i, Raise(r, "FileNotFoundError"))
        ELSE Quiet(S, i, Return([r EXCEPT !.entries =
                                    [k \in 1..Len(r.sorted) |-> EntryOf(F, r.sorted[k])]]))

\* line 118: resolved.unlink()
StepUnlink(S, i) ==
    LET r == S.req[i]
        u == OsUnlink(S.fs, r.rp)
    IN  After(S, i, Raise(r, ExcOf(u.errno)), u.fs, {}, NoPath, NoPath)

\* line 116, shutil.rmtree: lstat and open of the directory
StepRmtreeOpen(S, i) ==
    LET r == S.req[i]
        F == S.fs
    IN  IF r.rp \notin DOMAIN F THEN Quiet(S, i, Raise(r, "FileNotFoundError"))
        ELSE IF F[r.rp].kind = "link" THEN Quiet(S, i, Raise(r, "OSError"))
        ELSE IF F[r.rp].kind = "file" THEN Quiet(S, i, Raise(r, "NotADirectoryError"))
        ELSE Quiet(S, i, [r EXCEPT !.pc = "rmtree_entries", !.handle = r.rp])

\* shutil.rmtree: everything under the opened directory is removed through
\* the descriptor, wherever the directory now is
StepRmtreeEntries(S, i) ==
    LET r == S.req[i]
        F == S.fs
        under == IF r.handle = NoPath THEN {} ELSE Subtree(F, r.handle) \ {r.handle}
    IN  After(S, i, [r EXCEPT !.pc = "rmtree_rmdir"],
              Restrict(F, DOMAIN F \ under), under, NoPath, NoPath)

\* shutil.rmtree: os.rmdir of the path
StepRmtreeRmdir(S, i) ==
    LET r == S.req[i]
        d == OsRmdir(S.fs, r.rp)
    IN  After(S, i, Raise([r EXCEPT !.handle = NoPath], ExcOf(d.errno)), d.fs,
              IF d.errno = "OK" THEN {r.rp} ELSE {}, NoPath, NoPath)

\* line 122, Path.mkdir(parents=True, exist_ok=True): one os.mkdir; a
\* missing parent is made first and the path tried once more without
\* parents; any other error passes when the path is a directory
StepOsMkdir(S, i) ==
    LET r == S.req[i]
        F == S.fs
        n == Len(r.todo)
        top == r.todo[n]
        m == OsMkdir(F, top.path)
        popped == SubSeq(r.todo, 1, n - 1)
        passed == IF popped = <<>> THEN Return([r EXCEPT !.todo = popped])
                  ELSE [r EXCEPT !.todo = popped]
    IN  IF m.errno = "OK" THEN After(S, i, passed, m.fs, {}, NoPath, NoPath)
        ELSE IF m.errno = "ENOENT"
             THEN IF ~top.parents \/ top.path = <<>>
                  THEN Quiet(S, i, Raise(r, "FileNotFoundError"))
                  ELSE Quiet(S, i, [r EXCEPT !.todo =
                                       popped \o <<[path |-> top.path, parents |-> FALSE],
                                                   [path |-> Parent(top.path), parents |-> TRUE]>>])
        ELSE IF IsDir(F, top.path) THEN Quiet(S, i, passed)
        ELSE Quiet(S, i, Raise(r, ExcOf(m.errno)))

\* line 130: old_resolved.rename(new_resolved)
StepOsRename(S, i) ==
    LET r == S.req[i]
        F == S.fs
        m == OsRename(F, r.rp, r.rp2)
        moved == m.errno = "OK" /\ r.rp # r.rp2
    IN  After(S, i, Raise(r, ExcOf(m.errno)), m.fs,
              IF moved THEN Subtree(F, r.rp2) ELSE {},
              IF moved THEN r.rp ELSE NoPath, r.rp2)

\* the next filesystem step of request i
Step(S, i) ==
    LET pc == S.req[i].pc
    IN  CASE pc = "validate" -> StepValidate(S, i)
          [] pc = "validate2" -> StepValidate2(S, i)
          [] pc = "exists" -> StepExists(S, i)
          [] pc = "is_dir" -> StepIsDir(S, i)
          [] pc = "iterdir" -> StepIterdir(S, i)
          [] pc = "keys" -> StepKeys(S, i)
          [] pc = "entries" -> StepEntries(S, i)
          [] pc = "unlink" -> StepUnlink(S, i)
          [] pc = "rmtree_open" -> StepRmtreeOpen(S, i)
          [] pc = "rmtree_entries" -> StepRmtreeEntries(S, i)
          [] pc = "rmtree_rmdir" -> StepRmtreeRmdir(S, i)
          [] pc = "os_mkdir" -> StepOsMkdir(S, i)
          [] pc = "os_rename" -> StepOsRename(S, i)

\* request i run to its end with no step of another request in between
RECURSIVE Run(_, _)
Run(S, i) == IF S.req[i].pc = "done" THEN S ELSE Run(Step(S, i), i)

InitRace == fs \in RaceLayouts /\ up = Idle /\ last = NoRequest /\ nmut = 0

\* two requests arrive
Arrive == last = NoRequest /\ \E r1, r2 \in RaceRequests :
    /\ last' = [op |-> "race", req |-> <<r1, r2>>, tree |-> fs]
    /\ UNCHANGED <<fs, up, nmut>>

\* a step of a request of the given operation
RaceStep(op) ==
    /\ last # NoRequest
    /\ last.op = "race"
    /\ \E i \in 1..2 :
         /\ last.req[i].op = op
         /\ last.req[i].pc # "done"
         /\ LET S == Step([fs |-> fs, req |-> last.req], i)
            IN  /\ fs' = S.fs
                /\ last' = [last EXCEPT !.req = S.req]
    /\ UNCHANGED <<up, nmut>>

RaceList == RaceStep("list")

RaceMkdir == RaceStep("mkdir")

RaceDelete == RaceStep("delete")

RaceRename == RaceStep("rename")

NextRace == Arrive \/ RaceList \/ RaceMkdir \/ RaceDelete \/ RaceRename

SpecRace == InitRace /\ [][NextRace]_vars

\* both requests have their responses
Finished ==
    last # NoRequest /\ last.op = "race" /\ \A i \in 1..2 : last.req[i].pc = "done"

\* what a request answers: the code and, for a listing, the entries
Answer(r) == [code |-> CodeOf(r.op, r.exc), entries |-> r.entries]

\* the answers and the tree at the end of a run
Ending(S) == <<Answer(S.req[1]), Answer(S.req[2]), S.fs>>

\* the two requests run one after the other on the tree F, i first
Serial(F, reqs, i, j) ==
    Ending(Run(Run([fs |-> F, req |-> [k \in 1..2 |-> Request(reqs[k].op, reqs[k].cand, reqs[k].cand2)]], i), j))

\* the resolved paths of a request on the tree F
PathsOf(F, r) ==
    {validate_path(F, r.cand).path}
    \cup IF r.op = "rename" THEN {validate_path(F, r.cand2).path} ELSE {}

Disjoint(F, r1, r2) ==
    \A p \in PathsOf(F, r1), q \in PathsOf(F, r2) :
        ~IsRelativeTo(p, q) /\ ~IsRelativeTo(q, p)

\* C17 as stated: two requests whose resolved paths are disjoint get, in
\* every interleaving of their filesystem steps, the answers and the final
\* tree of running the two one after the other (in one order or the other).
C17_Original ==
    (Finished /\ Disjoint(last.tree, last.req[1], last.req[2])) =>
        Ending([fs |-> fs, req |-> last.req])
            \in {Serial(last.tree, last.req, 1, 2), Serial(last.tree, last.req, 2, 1)}

\* two deletes, or a delete and a rename, of the same existing path
SamePathRace ==
    /\ last.req[1].op = "delete"
    /\ last.req[2].op \in {"delete", "rename"}
    /\ validate_path(last.tree, last.req[1].cand).ok
    /\ validate_path(last.tree, last.req[1].cand) = validate_path(last.tree, last.req[2].cand)
    /\ Exists(last.tree, validate_path(last.tree, last.req[1].cand).path)

\* C18 as stated: when two deletes, or a delete and a rename, race on the
\* same existing path, every interleaving ends each request in success or in
\* NOT_FOUND, never in an internal error or another code, and at least one
\* of the two succeeds.
C18_Original ==
    (Finished /\ SamePathRace) =>
        /\ \A i \in 1..2 : Answer(last.req[i]).code \in {"OK", "NOT_FOUND"}
        /\ \E i \in 1..2 : Answer(last.req[i]).code = "OK"

(***************************************************************************)
(* The error codes of the routes and the tree after a failed upload        *)
(***************************************************************************)
\* the routes that answer in one step of the handler
OneStepRoutes == {"list", "info", "content", "download", "mkdir", "rename", "delete"}

\* a path of the request failed validate_path on the tree F, or the request
\* is a delete of Home Root
ForbiddenCause(F, r) ==
    \/ ~validate_path(F, r.cand).ok
    \/ r.op = "rename" /\ ~validate_path(F, r.cand2).ok
    \/ r.op = "delete" /\ validate_path(F, r.cand).path = Home

\* the addressed target (for rename the source) does not exist in the tree F
TargetMissing(F, r) == ~Exists(F, validate_path(F, r.cand).path)

\* C19 as stated: an answer of a /api/files route is 403 PATH_FORBIDDEN if
\* and only if a supplied path failed confinement or the request tried to
\* delete Home Root, and it is 404 NOT_FOUND if and only if the addressed
\* target (for rename the source) does not exist (mkdir, which creates its
\* target, aside); the tree is the one the handler found.
C19_Original ==
    [][(ResponseStep /\ last'.op \in OneStepRoutes /\ last'.code # "UNAUTHORIZED") =>
          /\ last'.code = "PATH_FORBIDDEN" <=> ForbiddenCause(fs, last')
          /\ last'.op # "mkdir" =>
                (last'.code = "NOT_FOUND" <=>
                    (~ForbiddenCause(fs, last') /\ TargetMissing(fs, last')))]_vars

\* an upload that opened its destination and ended in the size-exceeded
\* response or in the except OSError clause
UploadFailed ==
    /\ last.op = "upload"
    /\ last.rp2 # NoPath
    /\ last.code \in {"FILE_TOO_LARGE", "INSUFFICIENT_STORAGE", "INTERNAL_ERROR"}
    /\ last.exc # "Exception"

\* C20 as stated: an upload that ends in an error leaves the tree as it was
\* before the request.  The upload is the one request that has changed the
\* tree, which started as BaseTree with or without the link lnk: every path
\* of BaseTree is still there with its node (a file at the destination, or
\* behind a link at the destination, keeps its content) and nothing is new.
C20_Original ==
    UploadFailed =>
        /\ \A p \in DOMAIN BaseTree : p \in DOMAIN fs /\ fs[p] = BaseTree[p]
        /\ DOMAIN fs \ DOMAIN BaseTree \subseteq {Home \o <<"lnk">>}

====
